---------------------------- MODULE Spec2Model ----------------------------
(***************************************************************************)
(* A model of the celltree package (src/celltree.go): a prefix tree over   *)
(* unsigned keys ("cells") whose leaves hold sorted runs of items.         *)
(*                                                                         *)
(* The widths are scaled down so that the state space is finite: keys are  *)
(* KeyBits wide (64 in the source), a branch consumes numBits bits and has *)
(* numNodes children (7 and 128 in the source), and a leaf splits at       *)
(* maxItems items (256 in the source).  Every operator below is a          *)
(* transcription of the function of the same name.  A callback is modelled *)
(* by a script that fixes its answer at each invocation; the operators     *)
(* thread the log of the invocations made.                                 *)
(***************************************************************************)
EXTENDS Integers, Sequences, FiniteSets

\* ------------------------------------------------------------------------
\* Program constants (scaled) and bounds
\* ------------------------------------------------------------------------

KeyBits == 3

numBits == 1

numNodes == 2

maxItems == 2

\* 40% of maxItems in the source (102 of 256), scaled so that a branch is
\* compacted into a leaf while it still holds an item
minItems == 1

\* the largest number of items the tree is grown to
MaxCount == 3

\* payloads are 0..MaxData; payload 0 stands for the nil interface value
MaxData == 1

\* the number of items the runs that fill one leaf at the maximum depth
\* store at most
MaxLeafCount == 6

Pow2(k) == 2 ^ k

Cells == 0 .. (Pow2(KeyBits) - 1)

Data == 0 .. MaxData

NilData == 0

\* ------------------------------------------------------------------------
\* Types: item, node
\* ------------------------------------------------------------------------

Item(c, d) == [cell |-> c, data |-> d]

\* the zero value node{}: a leaf with a nil items slice (cap = 0 stands for nil)
EmptyNode ==
  [branch |-> FALSE, items |-> <<>>, cap |-> 0, nodes |-> <<>>, count |-> 0]

\* ------------------------------------------------------------------------
\* Callback scripts.  A nil callback has isnil = TRUE.
\*   cond of InsertOrReplace: the at-th invocation answers (newData, TRUE),
\*     every other one answers replace = FALSE.
\*   cond of DeleteWhen: the at-th invocation answers TRUE.
\*   iter of RangeDelete: invocation k answers shouldDelete = (k \in del)
\*     and ok = (k # stop).
\*   iter of Scan and Range: invocation k answers (k # stop).
\* ------------------------------------------------------------------------

Func(at, newData, del, stop) ==
  [isnil |-> FALSE, at |-> at, newData |-> newData, del |-> del, stop |-> stop]

NilCond == [isnil |-> TRUE, at |-> 0, newData |-> NilData, del |-> {}, stop |-> 0]

NilIter == NilCond

\* ------------------------------------------------------------------------
\* Pure helpers
\* ------------------------------------------------------------------------

cellIndex(cell, bits) == (cell \div Pow2(bits)) % numNodes

\* fault variant of maxDepth (C27): the level above the last one already
\* counts as the maximum depth
maxDepthOneLevelEarly(bits) == bits < 2 * numBits

maxDepth(bits) == bits < numBits

\* wrapping left shift and wrapping decrement on KeyBits-wide unsigned words
Shl(x, bits) == (x * Pow2(bits)) % Pow2(KeyBits)

Wrap(x) == x % Pow2(KeyBits)

\* the capacity of the slice append returns when one element is appended
GrowCap(len, cap) == IF len < cap THEN cap ELSE IF cap = 0 THEN 1 ELSE 2 * cap

\* the capacity of the slice append(dst, src...) returns
AppendCap(len, cap, add) ==
  IF len + add <= cap THEN cap
  ELSE IF len + add > 2 * cap THEN len + add ELSE 2 * cap

\* binary search: the index (0-based) after the last item with cell <= target
RECURSIVE findLoop(_, _, _, _)
findLoop(items, cell, i, j) ==
  IF i < j
  THEN LET h == i + ((j - i) \div 2)
       IN IF cell >= items[h + 1].cell
          THEN findLoop(items, cell, h + 1, j)
          ELSE findLoop(items, cell, i, h)
  ELSE i

findLeafItem(n, cell) == findLoop(n.items, cell, 0, Len(n.items))

\* s with x inserted so that it becomes the element at 0-based index idx
InsertAt(s, idx, x) == SubSeq(s, 1, idx) \o <<x>> \o SubSeq(s, idx + 1, Len(s))

\* s without the element at 0-based index idx
RemoveAt(s, idx) == SubSeq(s, 1, idx) \o SubSeq(s, idx + 2, Len(s))

\* ------------------------------------------------------------------------
\* insert and splitLeaf.  The result of insert is [node, inserted, log]:
\* the node after the call, the returned flag and the log of cond calls.
\* ------------------------------------------------------------------------

RECURSIVE insert(_, _, _, _, _, _)
RECURSIVE insertAgain(_, _, _, _, _, _, _)
RECURSIVE splitLoop(_, _, _)
RECURSIVE dupLoop(_, _, _, _, _)

\* the loop of splitLeaf that reinserts the leaf items, from index i
splitLoop(n, bits, i) ==
  IF i < Len(n.items)
  THEN splitLoop(insert(n, n.items[i + 1].cell, n.items[i + 1].data,
                        bits, NilCond, <<>>).node, bits, i + 1)
  ELSE n

\* fault variant of splitLeaf (C10): the leaf items are released without
\* being reinserted
splitLeafDropsItems(n, bits) ==
  [n EXCEPT !.branch = TRUE, !.count = 0, !.items = <<>>, !.cap = 0,
            !.nodes = [k \in 1 .. numNodes |-> EmptyNode]]

\* fault variant of splitLeaf (C19): every item goes to the first child
splitLeafIntoFirstChild(n, bits) ==
  [n EXCEPT !.branch = TRUE, !.items = <<>>, !.cap = 0,
            !.nodes = [k \in 1 .. numNodes |->
                         IF k = 1
                         THEN [EmptyNode EXCEPT !.items = n.items,
                                                !.cap = n.cap,
                                                !.count = Len(n.items)]
                         ELSE EmptyNode]]

\* fault variant of splitLeaf (C25): the count is not reset before the
\* items are reinserted
splitLeafKeepsCount(n, bits) ==
  LET b == [n EXCEPT !.branch = TRUE,
                     !.nodes = [k \in 1 .. numNodes |-> EmptyNode]]
      r == splitLoop(b, bits, 0)
  IN [r EXCEPT !.items = <<>>, !.cap = 0]

splitLeaf(n, bits) ==
  LET b == [n EXCEPT !.branch = TRUE, !.count = 0,
                     !.nodes = [k \in 1 .. numNodes |-> EmptyNode]]
      r == splitLoop(b, bits, 0)
  IN [r EXCEPT !.items = <<>>, !.cap = 0]

\* the answer of the InsertOrReplace cond at its k-th invocation
condReplace(cond, k) == k = cond.at

\* fault variant of replaceData (C9): the payload is not overwritten
replaceDataSkipped(items, i, newData) == items

\* the duplicate at index i gets the payload cond returned
replaceData(items, i, newData) == [items EXCEPT ![i + 1].data = newData]

\* fault variant of dupLoop (C28): the walk does not stop at an item with
\* another cell
dupLoopIgnoresCell(items, cell, cond, i, log) ==
  IF i < 0
  THEN [replaced |-> FALSE, items |-> items, log |-> log]
  ELSE LET log2 == Append(log, items[i + 1])
       IN IF condReplace(cond, Len(log2))
          THEN [replaced |-> TRUE,
                items |-> replaceData(items, i, cond.newData),
                log |-> log2]
          ELSE dupLoop(items, cell, cond, i - 1, log2)

\* the backward walk over the duplicates of cell, from index i down
dupLoop(items, cell, cond, i, log) ==
  IF i < 0 \/ items[i + 1].cell # cell
  THEN [replaced |-> FALSE, items |-> items, log |-> log]
  ELSE LET log2 == Append(log, items[i + 1])
       IN IF condReplace(cond, Len(log2))
          THEN [replaced |-> TRUE,
                items |-> replaceData(items, i, cond.newData),
                log |-> log2]
          ELSE dupLoop(items, cell, cond, i - 1, log2)

\* fault variant of leafPut (C4): the new item goes to the end of the leaf
leafPutAtEnd(items, index, cell, data) == Append(items, Item(cell, data))

\* the leaf items with the new item placed at index
leafPut(items, index, cell, data) == InsertAt(items, index, Item(cell, data))

\* the leaf case of insert, from the label insertAgain
insertAgain(n, cell, data, bits, cond, log, atcap) ==
  IF atcap /\ cond.isnil
  THEN LET s == splitLeaf(n, bits)
           r == insert(s, cell, data, bits, NilCond, log)
           d == [r.node EXCEPT !.count = @ - 1]
       IN [node |-> [d EXCEPT !.count = @ + 1], inserted |-> TRUE, log |-> r.log]
  ELSE IF Len(n.items) = 0 \/ n.items[Len(n.items)].cell < cell
  THEN IF atcap
       THEN insertAgain(n, cell, data, bits, NilCond, log, atcap)
       ELSE [node |-> [n EXCEPT !.items = Append(@, Item(cell, data)),
                                !.cap = GrowCap(Len(n.items), n.cap),
                                !.count = @ + 1],
             inserted |-> TRUE, log |-> log]
  ELSE LET index == findLeafItem(n, cell)
           w == IF cond.isnil
                THEN [replaced |-> FALSE, items |-> n.items, log |-> log]
                ELSE dupLoop(n.items, cell, cond, index - 1, log)
       IN IF w.replaced
          THEN [node |-> [n EXCEPT !.items = w.items],
                inserted |-> FALSE, log |-> w.log]
          ELSE IF ~cond.isnil /\ atcap
          THEN insertAgain(n, cell, data, bits, NilCond, w.log, atcap)
          ELSE [node |-> [n EXCEPT !.items = leafPut(@, index, cell, data),
                                   !.cap = GrowCap(Len(n.items), n.cap),
                                   !.count = @ + 1],
                inserted |-> TRUE, log |-> w.log]

\* fault variant of insert (C20): a leaf at capacity is never split
insertNeverSplits(n, cell, data, bits, cond, log) ==
  insertAgain(n, cell, data, bits, cond, log, FALSE)

insert(n, cell, data, bits, cond, log) ==
  IF ~n.branch
  THEN insertAgain(n, cell, data, bits, cond, log,
                   ~maxDepth(bits) /\ Len(n.items) >= maxItems)
  ELSE LET index == cellIndex(cell, bits)
           r == insert(n.nodes[index + 1], cell, data, bits - numBits, cond, log)
       IN IF ~r.inserted
          THEN [node |-> [n EXCEPT !.nodes[index + 1] = r.node],
                inserted |-> FALSE, log |-> r.log]
          ELSE [node |-> [n EXCEPT !.nodes[index + 1] = r.node, !.count = @ + 1],
                inserted |-> TRUE, log |-> r.log]

\* ------------------------------------------------------------------------
\* flatten and compactBranch
\* ------------------------------------------------------------------------

RECURSIVE flatten(_, _)
RECURSIVE flattenLoop(_, _, _)

\* acc is the slice built so far: [items, cap]
\* fault variant of flatten (C26): the items of a leaf are put in front of
\* the items collected so far
flattenPrepends(n, acc) ==
  IF ~n.branch
  THEN [items |-> n.items \o acc.items,
        cap |-> AppendCap(Len(acc.items), acc.cap, Len(n.items))]
  ELSE flattenLoop(n.nodes, 1, acc)

flatten(n, acc) ==
  IF ~n.branch
  THEN [items |-> acc.items \o n.items,
        cap |-> AppendCap(Len(acc.items), acc.cap, Len(n.items))]
  ELSE flattenLoop(n.nodes, 1, acc)

flattenLoop(nodes, k, acc) ==
  IF k > Len(nodes)
  THEN acc
  ELSE flattenLoop(nodes, k + 1,
                   IF nodes[k].count > 0 THEN flatten(nodes[k], acc) ELSE acc)

\* fault variant of compactBranch (C11): the branch is left as it is
compactBranchSkipped(n) == n

compactBranch(n) ==
  LET f == flatten(n, [items |-> <<>>, cap |-> 0])
  IN [branch |-> FALSE, items |-> f.items, cap |-> f.cap,
      nodes |-> <<>>, count |-> Len(f.items)]

\* fault variant of afterDelete (C6): the count is left as it was
afterDeleteKeepsCount(n, deleted) == n

\* fault variant of afterDelete (C21): a branch is compacted only when its
\* count falls below minItems
afterDeleteFloorOffByOne(n, deleted) ==
  IF deleted > 0
  THEN LET m == [n EXCEPT !.count = @ - deleted]
       IN IF m.branch /\ m.count < minItems THEN compactBranch(m) ELSE m
  ELSE n

\* the count update that ends nodeDelete and nodeRangeDelete
afterDelete(n, deleted) ==
  IF deleted > 0
  THEN LET m == [n EXCEPT !.count = @ - deleted]
       IN IF m.branch /\ m.count <= minItems THEN compactBranch(m) ELSE m
  ELSE n

\* ------------------------------------------------------------------------
\* nodeDelete.  The result is [node, deleted, log].
\* ------------------------------------------------------------------------

RECURSIVE nodeDelete(_, _, _, _, _, _)
RECURSIVE delLoop(_, _, _, _, _, _)

\* the answer of the DeleteWhen cond at its k-th invocation
condDelete(cond, k) == k = cond.at

\* fault variant of dataEqual (C7): every payload matches
dataEqualAlways(a, b) == TRUE

\* the payload test of Delete
dataEqual(a, b) == a = b

\* the backward walk of the leaf case: [found, i, log]
delLoop(items, cell, data, cond, i, log) ==
  IF i < 0 \/ items[i + 1].cell # cell
  THEN [found |-> FALSE, i |-> i, log |-> log]
  ELSE IF cond.isnil
  THEN IF dataEqual(items[i + 1].data, data)
       THEN [found |-> TRUE, i |-> i, log |-> log]
       ELSE delLoop(items, cell, data, cond, i - 1, log)
  ELSE LET log2 == Append(log, items[i + 1])
       IN IF condDelete(cond, Len(log2))
          THEN [found |-> TRUE, i |-> i, log |-> log2]
          ELSE delLoop(items, cell, data, cond, i - 1, log2)

\* fault variant of lastCandidate (C8): the walk starts one item too low
lastCandidateOffByOne(n, cell) == findLeafItem(n, cell) - 2

\* the index the backward walk of nodeDelete starts at
lastCandidate(n, cell) == findLeafItem(n, cell) - 1

\* fault variant of removeLeafItem (C22): the backing store of a leaf that
\* loses its last item is kept
removeLeafItemKeepsBacking(n, i) ==
  IF Len(n.items) = 1
  THEN [n EXCEPT !.items = <<>>]
  ELSE LET min == (n.cap * 40) \div 100
       IN IF Len(n.items) - 1 <= min
          THEN [n EXCEPT !.items = RemoveAt(@, i), !.cap = n.cap \div 2]
          ELSE [n EXCEPT !.items = RemoveAt(@, i)]

\* the removal of the item at index i of a leaf, with the shrink policy
removeLeafItem(n, i) ==
  IF Len(n.items) = 1
  THEN [n EXCEPT !.items = <<>>, !.cap = 0]
  ELSE LET min == (n.cap * 40) \div 100
       IN IF Len(n.items) - 1 <= min
          THEN [n EXCEPT !.items = RemoveAt(@, i), !.cap = n.cap \div 2]
          ELSE [n EXCEPT !.items = RemoveAt(@, i)]

nodeDelete(n, cell, data, bits, cond, log) ==
  IF ~n.branch
  THEN LET f == delLoop(n.items, cell, data, cond, lastCandidate(n, cell), log)
       IN IF f.found
          THEN [node |-> afterDelete(removeLeafItem(n, f.i), 1),
                deleted |-> TRUE, log |-> f.log]
          ELSE [node |-> n, deleted |-> FALSE, log |-> f.log]
  ELSE LET index == cellIndex(cell, bits)
           r == nodeDelete(n.nodes[index + 1], cell, data, bits - numBits, cond, log)
           m == [n EXCEPT !.nodes[index + 1] = r.node]
       IN [node |-> afterDelete(m, IF r.deleted THEN 1 ELSE 0),
           deleted |-> r.deleted, log |-> r.log]

\* ------------------------------------------------------------------------
\* scan and nodeRange.  An iter script of Scan and Range answers false at
\* its stop-th invocation.  Calling a nil iter is a nil dereference: the
\* result has panic = TRUE.  The result of scan is [ok, log, panic]; the
\* result of nodeRange is [hit, ok, log, panic].
\* ------------------------------------------------------------------------

RECURSIVE scan(_, _, _)
RECURSIVE scanItems(_, _, _, _)
RECURSIVE scanNodes(_, _, _, _)

iterContinue(iter, k) == k # iter.stop

scanItems(items, i, iter, log) ==
  IF i >= Len(items)
  THEN [ok |-> TRUE, log |-> log, panic |-> FALSE]
  ELSE IF iter.isnil
  THEN [ok |-> FALSE, log |-> log, panic |-> TRUE]
  ELSE LET log2 == Append(log, items[i + 1])
       IN IF ~iterContinue(iter, Len(log2))
          THEN [ok |-> FALSE, log |-> log2, panic |-> FALSE]
          ELSE scanItems(items, i + 1, iter, log2)

RECURSIVE scanNodesIgnoresStop(_, _, _, _)
\* fault variant of scanNodes (C14): a child's false return is not passed on
scanNodesIgnoresStop(nodes, i, iter, log) ==
  IF i >= Len(nodes)
  THEN [ok |-> TRUE, log |-> log, panic |-> FALSE]
  ELSE IF nodes[i + 1].count > 0
  THEN scanNodesIgnoresStop(nodes, i + 1, iter, scan(nodes[i + 1], iter, log).log)
  ELSE scanNodesIgnoresStop(nodes, i + 1, iter, log)

scanNodes(nodes, i, iter, log) ==
  IF i >= Len(nodes)
  THEN [ok |-> TRUE, log |-> log, panic |-> FALSE]
  ELSE IF nodes[i + 1].count > 0
  THEN LET r == scan(nodes[i + 1], iter, log)
       IN IF ~r.ok THEN r ELSE scanNodes(nodes, i + 1, iter, r.log)
  ELSE scanNodes(nodes, i + 1, iter, log)

scan(n, iter, log) ==
  IF ~n.branch
  THEN scanItems(n.items, 0, iter, log)
  ELSE scanNodes(n.nodes, 0, iter, log)

RECURSIVE nodeRange(_, _, _, _, _, _)
RECURSIVE rangeItems(_, _, _, _, _)
RECURSIVE rangeNodes(_, _, _, _, _, _, _)

\* fault variant of rangeStartIndex (C5): the pivot's index is used in
\* every branch, also after the pivot has been passed
rangeStartIndexAlwaysPivot(hit, pivot, bits) == cellIndex(pivot, bits)

\* the child the branch loop of nodeRange starts at
rangeStartIndex(hit, pivot, bits) == IF hit THEN 0 ELSE cellIndex(pivot, bits)

rangeItems(items, i, pivot, iter, log) ==
  IF i >= Len(items)
  THEN [hit |-> TRUE, ok |-> TRUE, log |-> log, panic |-> FALSE]
  ELSE IF items[i + 1].cell < pivot
  THEN rangeItems(items, i + 1, pivot, iter, log)
  ELSE IF iter.isnil
  THEN [hit |-> FALSE, ok |-> FALSE, log |-> log, panic |-> TRUE]
  ELSE LET log2 == Append(log, items[i + 1])
       IN IF ~iterContinue(iter, Len(log2))
          THEN [hit |-> FALSE, ok |-> FALSE, log |-> log2, panic |-> FALSE]
          ELSE rangeItems(items, i + 1, pivot, iter, log2)

rangeNodes(nodes, index, pivot, bits, hit, iter, log) ==
  IF index >= Len(nodes)
  THEN [hit |-> hit, ok |-> TRUE, log |-> log, panic |-> FALSE]
  ELSE IF nodes[index + 1].count = 0
  THEN rangeNodes(nodes, index + 1, pivot, bits, TRUE, iter, log)
  ELSE LET r == nodeRange(nodes[index + 1], pivot, bits - numBits, hit, iter, log)
       IN IF ~r.ok
          THEN [hit |-> FALSE, ok |-> FALSE, log |-> r.log, panic |-> r.panic]
          ELSE rangeNodes(nodes, index + 1, pivot, bits, r.hit, iter, r.log)

nodeRange(n, pivot, bits, hit, iter, log) ==
  IF ~n.branch
  THEN rangeItems(n.items, 0, pivot, iter, log)
  ELSE rangeNodes(n.nodes, rangeStartIndex(hit, pivot, bits),
                  pivot, bits, hit, iter, log)

\* ------------------------------------------------------------------------
\* nodeRangeDelete.  The result is [node, hit, deleted, ok, log].
\* ------------------------------------------------------------------------

RECURSIVE nodeRangeDelete(_, _, _, _, _, _, _, _)
RECURSIVE rdLeafLoop(_, _, _, _, _)
RECURSIVE rdBranchLoop(_, _, _, _, _, _, _)
RECURSIVE shrinkLoop(_, _, _)

\* the answers of the RangeDelete iter at its k-th invocation
iterShouldDelete(iter, k) == k \in iter.del

iterOk(iter, k) == k # iter.stop

\* fault variant of shrinkLoop (C30): the capacity is halved once only
shrinkLoopOnce(len, ncap, min) ==
  IF len <= min THEN ncap \div 2 ELSE ncap

\* the capacity the halving loop ends with
shrinkLoop(len, ncap, min) ==
  IF len <= min
  THEN shrinkLoop(len, ncap \div 2, ((ncap \div 2) * 40) \div 100)
  ELSE ncap

\* fault variant of leafAsk (C3): a stop requested before is forgotten
leafAskForgetsStop(ok, cell, end) == ~(cell > end)

\* whether the leaf loop takes a deletion decision for an item with cell >=
\* start: no stop was requested before and the item is not past the end
leafAsk(ok, cell, end) == ok /\ ~(cell > end)

\* the loop over the leaf items, from index i; st = [items, deleted, ok, log]
rdLeafLoop(st, start, end, iter, i) ==
  IF i >= Len(st.items)
  THEN st
  ELSE LET it == st.items[i + 1]
       IN IF it.cell < start
          THEN rdLeafLoop(st, start, end, iter, i + 1)
          ELSE LET asks == leafAsk(st.ok, it.cell, end)
                   log2 == IF asks /\ ~iter.isnil
                           THEN Append(st.log, it) ELSE st.log
                   k == Len(log2)
                   ok2 == IF ~asks THEN FALSE
                          ELSE IF iter.isnil THEN TRUE
                          ELSE iterOk(iter, k)
                   shouldDelete ==
                          IF ~asks THEN FALSE
                          ELSE IF iter.isnil THEN TRUE
                          ELSE iterShouldDelete(iter, k)
                   st2 == [st EXCEPT !.ok = ok2, !.log = log2]
               IN IF shouldDelete
                  THEN rdLeafLoop([st2 EXCEPT !.deleted = @ + 1],
                                  start, end, iter, i + 1)
                  ELSE IF st.deleted > 0
                  THEN rdLeafLoop(
                         [st2 EXCEPT !.items[i - st.deleted + 1] = it,
                                     !.items[i + 1].data = NilData],
                         start, end, iter, i + 1)
                  ELSE IF ~ok2
                  THEN st2
                  ELSE rdLeafLoop(st2, start, end, iter, i + 1)

\* fault variant of leafCovered (C23): the last item is not compared with end
leafCoveredIgnoresEnd(items, start, end) ==
  items[1].cell >= start

\* the whole-leaf test made when iter is nil
leafCovered(items, start, end) ==
  items[1].cell >= start /\ items[Len(items)].cell <= end

\* the leaf after the loop: truncation and shrink
rdTruncate(n, items, deleted) ==
  IF deleted > 0
  THEN LET kept == SubSeq(items, 1, Len(items) - deleted)
       IN IF Len(kept) = 0
          THEN [n EXCEPT !.items = <<>>, !.cap = 0]
          ELSE LET min == (n.cap * 40) \div 100
               IN IF Len(kept) <= min
                  THEN [n EXCEPT !.items = kept,
                                 !.cap = shrinkLoop(Len(kept), n.cap, min)]
                  ELSE [n EXCEPT !.items = kept]
  ELSE n

\* the key span the branch loop computes for child index
cellStartOf(base, index, bits) == Shl(Wrap(base + index), bits)

cellEndOf(base, index, bits) == Wrap(Shl(Wrap(base + index + 1), bits) - 1)

\* the base handed to child index
childBase(base, index) == Wrap(Shl(base, numBits) + index)

\* the child the branch loop of nodeRangeDelete starts at
rdStartIndex(hit, start, bits) == IF hit THEN 0 ELSE cellIndex(start, bits)

\* the value of the named result ok when the branch loop starts
branchOkInit == FALSE

\* the loop over the children, from index; st = [node, hit, deleted, ok, log]
rdBranchLoop(st, start, end, bits, base, iter, index) ==
  IF index >= Len(st.node.nodes)
  THEN st
  ELSE LET child == st.node.nodes[index + 1]
       IN IF child.count = 0
          THEN rdBranchLoop([st EXCEPT !.hit = TRUE],
                            start, end, bits, base, iter, index + 1)
          ELSE IF st.hit /\ iter.isnil
                  /\ cellStartOf(base, index, bits) >= start
                  /\ cellEndOf(base, index, bits) <= end
          THEN rdBranchLoop(
                 [st EXCEPT !.deleted = @ + child.count,
                            !.node.nodes[index + 1] = EmptyNode],
                 start, end, bits, base, iter, index + 1)
          ELSE LET r == nodeRangeDelete(child, start, end, bits - numBits,
                                        childBase(base, index), st.hit,
                                        iter, st.log)
                   st2 == [node |-> [st.node EXCEPT !.nodes[index + 1] = r.node],
                           hit |-> r.hit,
                           deleted |-> st.deleted + r.deleted,
                           ok |-> r.ok,
                           log |-> r.log]
               IN IF ~r.ok
                  THEN st2
                  ELSE rdBranchLoop(st2, start, end, bits, base, iter, index + 1)

nodeRangeDelete(n, start, end, bits, base, hit, iter, log) ==
  IF ~n.branch
  THEN LET skipIterator == iter.isnil /\ Len(n.items) > 0
                           /\ leafCovered(n.items, start, end)
           lp == IF skipIterator
                 THEN [items |-> n.items, deleted |-> Len(n.items),
                       ok |-> TRUE, log |-> log]
                 ELSE rdLeafLoop([items |-> n.items, deleted |-> 0,
                                  ok |-> TRUE, log |-> log],
                                 start, end, iter, 0)
       IN [node |-> afterDelete(rdTruncate(n, lp.items, lp.deleted), lp.deleted),
           hit |-> TRUE, deleted |-> lp.deleted, ok |-> lp.ok, log |-> lp.log]
  ELSE LET lp == rdBranchLoop([node |-> n, hit |-> hit, deleted |-> 0,
                               ok |-> branchOkInit, log |-> log],
                              start, end, bits, base, iter,
                              rdStartIndex(hit, start, bits))
       IN [node |-> afterDelete(lp.node, lp.deleted),
           hit |-> lp.hit, deleted |-> lp.deleted, ok |-> lp.ok, log |-> lp.log]

\* ------------------------------------------------------------------------
\* Tree: the public operations.  A tree is [root, hasRoot, count]; hasRoot
\* is FALSE while tr.root is nil.  Each result carries the tree after the
\* call and the log of the callback invocations.
\* ------------------------------------------------------------------------

RootBits == KeyBits - numBits

ZeroTree == [root |-> EmptyNode, hasRoot |-> FALSE, count |-> 0]

Count(t) == t.count

TreeInsertOrReplace(t, cell, data, cond) ==
  LET r == insert(IF t.hasRoot THEN t.root ELSE EmptyNode,
                  cell, data, RootBits, cond, <<>>)
  IN [tr |-> [root |-> r.node, hasRoot |-> TRUE,
              count |-> IF r.inserted THEN t.count + 1 ELSE t.count],
      log |-> r.log, panic |-> FALSE]

TreeInsert(t, cell, data) == TreeInsertOrReplace(t, cell, data, NilCond)

TreeDelete(t, cell, data) ==
  IF ~t.hasRoot
  THEN [tr |-> t, log |-> <<>>, panic |-> FALSE]
  ELSE LET r == nodeDelete(t.root, cell, data, RootBits, NilCond, <<>>)
       IN [tr |-> [t EXCEPT !.root = r.node,
                            !.count = IF r.deleted THEN @ - 1 ELSE @],
           log |-> r.log, panic |-> FALSE]

TreeDeleteWhen(t, cell, cond) ==
  IF ~t.hasRoot
  THEN [tr |-> t, log |-> <<>>, panic |-> FALSE]
  ELSE LET r == nodeDelete(t.root, cell, NilData, RootBits, cond, <<>>)
       IN [tr |-> [t EXCEPT !.root = r.node,
                            !.count = IF r.deleted THEN @ - 1 ELSE @],
           log |-> r.log, panic |-> FALSE]

\* fault variant of TreeScan (C29): an absent root is allocated, as
\* InsertOrReplace does
TreeScanMakesRoot(t, iter) ==
  LET r == scan(t.root, iter, <<>>)
  IN [tr |-> [t EXCEPT !.hasRoot = TRUE], log |-> r.log, panic |-> r.panic]

TreeScan(t, iter) ==
  IF ~t.hasRoot
  THEN [tr |-> t, log |-> <<>>, panic |-> FALSE]
  ELSE LET r == scan(t.root, iter, <<>>)
       IN [tr |-> t, log |-> r.log, panic |-> r.panic]

TreeRange(t, pivot, iter) ==
  IF t.hasRoot
  THEN LET r == nodeRange(t.root, pivot, RootBits, FALSE, iter, <<>>)
       IN [tr |-> t, log |-> r.log, panic |-> r.panic]
  ELSE [tr |-> t, log |-> <<>>, panic |-> FALSE]

\* fault variant of TreeRangeDelete (C15): an absent root is allocated
TreeRangeDeleteMakesRoot(t, start, end, iter) ==
  LET r == nodeRangeDelete(t.root, start, end, RootBits, 0, FALSE, iter, <<>>)
  IN [tr |-> [root |-> r.node, hasRoot |-> TRUE, count |-> t.count - r.deleted],
      log |-> r.log, panic |-> FALSE]

TreeRangeDelete(t, start, end, iter) ==
  IF ~t.hasRoot
  THEN [tr |-> t, log |-> <<>>, panic |-> FALSE]
  ELSE LET r == nodeRangeDelete(t.root, start, end, RootBits, 0, FALSE,
                                iter, <<>>)
       IN [tr |-> [t EXCEPT !.root = r.node, !.count = @ - r.deleted],
           log |-> r.log, panic |-> FALSE]

\* ------------------------------------------------------------------------
\* Observations used by the properties
\* ------------------------------------------------------------------------

\* an iter that never stops
ForEver == Func(0, NilData, {}, 0)

\* the items a full Scan of the tree visits, in order
ScanItems(t) == TreeScan(t, ForEver).log

CellsOf(items) == [k \in 1 .. Len(items) |-> items[k].cell]

RECURSIVE SelectItems(_, _, _)
\* the subsequence of the items whose cell is in lo..hi
SelectItems(items, lo, hi) ==
  IF items = <<>>
  THEN <<>>
  ELSE LET h == Head(items)
           r == SelectItems(Tail(items), lo, hi)
       IN IF lo <= h.cell /\ h.cell <= hi THEN <<h>> \o r ELSE r

MaxCell == Pow2(KeyBits) - 1

\* the order of the reference: by cell, then by payload
ItemLeq(x, y) == x.cell < y.cell \/ (x.cell = y.cell /\ x.data <= y.data)

RECURSIVE SortedInsert(_, _)
SortedInsert(s, x) ==
  IF s = <<>> THEN <<x>>
  ELSE IF ItemLeq(x, Head(s)) THEN <<x>> \o s
  ELSE <<Head(s)>> \o SortedInsert(Tail(s), x)

RECURSIVE SortItems(_)
SortItems(s) == IF s = <<>> THEN <<>> ELSE SortedInsert(SortItems(Tail(s)), Head(s))

RECURSIVE RemoveOne(_, _)
\* s without one occurrence of x (s itself when x does not occur)
RemoveOne(s, x) ==
  IF s = <<>> THEN <<>>
  ELSE IF Head(s) = x THEN Tail(s)
  ELSE <<Head(s)>> \o RemoveOne(Tail(s), x)

IsSorted(cells) == \A k \in 1 .. Len(cells) - 1 : cells[k] <= cells[k + 1]

\* ------------------------------------------------------------------------
\* State
\*   tr        the Tree
\*   payloads  the payload values the caller stores (fixed by Init)
\*   ref       the items a caller that tracks its own calls expects the tree
\*             to hold (an ordered multiset, as the reference slice of the
\*             tests)
\*   obs       the call that has just returned: its arguments, the tree
\*             before it, and the log of its callback invocations; "idle"
\*             between calls
\* ------------------------------------------------------------------------

VARIABLES tr, payloads, ref, obs

vars == <<tr, payloads, ref, obs>>

Idle ==
  [op |-> "idle", a |-> 0, b |-> 0, data |-> NilData, fn |-> NilCond,
   pre |-> ZeroTree, log |-> <<>>, panic |-> FALSE]

Obs(op, a, b, data, fn, r) ==
  [op |-> op, a |-> a, b |-> b, data |-> data, fn |-> fn,
   pre |-> tr, log |-> r.log, panic |-> r.panic]

\* a caller that stores nil payloads only
Init == tr = ZeroTree /\ payloads = {NilData} /\ ref = <<>> /\ obs = Idle

\* a caller that stores every payload of Data
InitData == tr = ZeroTree /\ payloads = Data /\ ref = <<>> /\ obs = Idle

\* the number of stored items with the given cell
DupCount(t, cell) == Len(SelectItems(ScanItems(t), cell, cell))

Insert ==
  /\ obs.op = "idle"
  /\ tr.count < MaxCount
  /\ \E cell \in Cells, data \in payloads :
       LET r == TreeInsert(tr, cell, data)
       IN /\ tr' = r.tr
          /\ ref' = SortedInsert(ref, Item(cell, data))
          /\ obs' = Obs("Insert", cell, 0, data, NilCond, r)
          /\ UNCHANGED payloads

InsertOrReplace ==
  /\ obs.op = "idle"
  /\ tr.count < MaxCount
  /\ \E cell \in Cells, data \in payloads :
     \E at \in 0 .. DupCount(tr, cell) :
     \E newData \in (IF at = 0 THEN {NilData} ELSE payloads) :
       LET cond == Func(at, newData, {}, 0)
           r == TreeInsertOrReplace(tr, cell, data, cond)
       IN /\ tr' = r.tr
          /\ ref' = IF at >= 1 /\ at <= Len(r.log)
                    THEN SortedInsert(RemoveOne(ref, r.log[at]),
                                      Item(cell, newData))
                    ELSE SortedInsert(ref, Item(cell, data))
          /\ obs' = Obs("InsertOrReplace", cell, 0, data, cond, r)
          /\ UNCHANGED payloads

Delete ==
  /\ obs.op = "idle"
  /\ \E cell \in Cells, data \in payloads :
       LET r == TreeDelete(tr, cell, data)
       IN /\ tr' = r.tr
          /\ ref' = RemoveOne(ref, Item(cell, data))
          /\ obs' = Obs("Delete", cell, 0, data, NilCond, r)
          /\ UNCHANGED payloads

DeleteWhen ==
  /\ obs.op = "idle"
  /\ \E cell \in Cells :
     \E cond \in {NilCond} \cup
                 {Func(at, NilData, {}, 0) : at \in 0 .. DupCount(tr, cell)} :
       LET r == TreeDeleteWhen(tr, cell, cond)
       IN /\ tr' = r.tr
          /\ ref' = IF cond.isnil
                    THEN SortItems(ScanItems(r.tr))
                    ELSE IF cond.at >= 1 /\ cond.at <= Len(r.log)
                    THEN RemoveOne(ref, r.log[cond.at])
                    ELSE ref
          /\ obs' = Obs("DeleteWhen", cell, 0, NilData, cond, r)
          /\ UNCHANGED payloads

\* the scripts of a RangeDelete iter that is invoked at most n times
RangeDeleteIters(n) ==
  {Func(0, NilData, del, 0) : del \in SUBSET (1 .. n)}
  \cup UNION {{Func(0, NilData, del, stop) : del \in SUBSET (1 .. stop)} :
              stop \in 1 .. n}

\* RangeDelete with start <= end, the inputs its contract names
RangeDelete ==
  /\ obs.op = "idle"
  /\ \E start \in Cells, end \in Cells :
     \E iter \in {NilIter} \cup
                 RangeDeleteIters(Len(SelectItems(ScanItems(tr), start, end))) :
       /\ start <= end
       /\ LET r == TreeRangeDelete(tr, start, end, iter)
          IN /\ tr' = r.tr
             /\ ref' = SortItems(ScanItems(r.tr))
             /\ obs' = Obs("RangeDelete", start, end, NilData, iter, r)
             /\ UNCHANGED payloads

Scan ==
  /\ obs.op = "idle"
  /\ \E iter \in {NilIter} \cup
                 {Func(0, NilData, {}, stop) : stop \in 0 .. tr.count} :
       LET r == TreeScan(tr, iter)
       IN /\ tr' = r.tr
          /\ obs' = Obs("Scan", 0, 0, NilData, iter, r)
          /\ UNCHANGED <<payloads, ref>>

Range ==
  /\ obs.op = "idle"
  /\ \E pivot \in Cells :
     \E iter \in {NilIter} \cup
                 {Func(0, NilData, {}, stop) :
                    stop \in 0 .. Len(SelectItems(ScanItems(tr), pivot, MaxCell))} :
       LET r == TreeRange(tr, pivot, iter)
       IN /\ tr' = r.tr
          /\ obs' = Obs("Range", pivot, 0, NilData, iter, r)
          /\ UNCHANGED <<payloads, ref>>

\* RangeDelete with any start and end, also start > end
RangeDeleteAny ==
  /\ obs.op = "idle"
  /\ \E start \in Cells, end \in Cells :
     \E iter \in {NilIter} \cup RangeDeleteIters(tr.count) :
       LET r == TreeRangeDelete(tr, start, end, iter)
       IN /\ tr' = r.tr
          /\ ref' = SortItems(ScanItems(r.tr))
          /\ obs' = Obs("RangeDelete", start, end, NilData, iter, r)
          /\ UNCHANGED payloads

\* RangeDelete with start > end, which Tree.RangeDelete does not reject; a
\* non-nil iter would delete or keep the first item it is shown, and stop
\* there or go on
RangeDeleteReversed ==
  /\ obs.op = "idle"
  /\ \E start \in Cells, end \in Cells :
     \E iter \in {NilIter} \cup RangeDeleteIters(1) :
       /\ start > end
       /\ LET r == TreeRangeDelete(tr, start, end, iter)
          IN /\ tr' = r.tr
             /\ ref' = SortItems(ScanItems(r.tr))
             /\ obs' = Obs("RangeDelete", start, end, NilData, iter, r)
             /\ UNCHANGED payloads

\* three cells beneath one branch of the last level: the first two end in
\* one leaf at the maximum depth, the third in its sibling
SiblingCells == Pow2(KeyBits - 1) .. (Pow2(KeyBits - 1) + 2 * Pow2(numBits - 1))

\* Insert of one of the sibling cells, up to MaxLeafCount items
InsertSibling ==
  /\ obs.op = "idle"
  /\ tr.count < MaxLeafCount
  /\ \E cell \in SiblingCells, data \in payloads :
       LET r == TreeInsert(tr, cell, data)
       IN /\ tr' = r.tr
          /\ ref' = SortedInsert(ref, Item(cell, data))
          /\ obs' = Obs("Insert", cell, 0, data, NilCond, r)
          /\ UNCHANGED payloads

\* the caller takes the result; the next call can start
Return ==
  /\ obs.op # "idle"
  /\ obs' = Idle
  /\ UNCHANGED <<tr, payloads, ref>>

\* every operation, on nil payloads
Next ==
  \/ Insert
  \/ InsertOrReplace
  \/ Delete
  \/ DeleteWhen
  \/ RangeDelete
  \/ Scan
  \/ Range
  \/ Return

Spec == Init /\ [][Next]_vars

\* the point operations and the iterations, on every payload
NextPoint ==
  \/ Insert
  \/ InsertOrReplace
  \/ Delete
  \/ DeleteWhen
  \/ Scan
  \/ Range
  \/ Return

SpecPoint == InitData /\ [][NextPoint]_vars

\* insertions only, on every payload
NextInsert ==
  \/ Insert
  \/ Return

SpecInsert == InitData /\ [][NextInsert]_vars

\* insertions and deletions by cell and payload, on every payload
NextInsertDelete ==
  \/ Insert
  \/ Delete
  \/ Return

SpecInsertDelete == InitData /\ [][NextInsertDelete]_vars

\* the calls that do not create the root, on a tree never inserted into
NextNoRoot ==
  \/ Delete
  \/ DeleteWhen
  \/ Scan
  \/ Range
  \/ RangeDeleteAny
  \/ Return

SpecNoRoot == InitData /\ [][NextNoRoot]_vars

\* ------------------------------------------------------------------------
\* Operators used to state the properties
\* ------------------------------------------------------------------------

\* the items of the tree t with cell in lo..hi, in Scan order
InRange(t, lo, hi) == SelectItems(ScanItems(t), lo, hi)

RECURSIVE RejectItems(_, _, _)
\* the subsequence of the items whose cell is not in lo..hi
RejectItems(items, lo, hi) ==
  IF items = <<>>
  THEN <<>>
  ELSE LET h == Head(items)
           r == RejectItems(Tail(items), lo, hi)
       IN IF lo <= h.cell /\ h.cell <= hi THEN r ELSE <<h>> \o r

RECURSIVE RemoveMarked(_, _, _, _, _)
\* items without those items with cell in lo..hi whose rank among the items
\* in lo..hi (counted from k + 1) is in del
RemoveMarked(items, lo, hi, del, k) ==
  IF items = <<>>
  THEN <<>>
  ELSE LET h == Head(items)
       IN IF lo <= h.cell /\ h.cell <= hi
          THEN IF (k + 1) \in del
               THEN RemoveMarked(Tail(items), lo, hi, del, k + 1)
               ELSE <<h>> \o RemoveMarked(Tail(items), lo, hi, del, k + 1)
          ELSE <<h>> \o RemoveMarked(Tail(items), lo, hi, del, k)

\* a RangeDelete call has just returned
RangeDeleteDone == obs.op = "RangeDelete"

\* the root is a branch that has a branch among its children
IsDeep(t) ==
  /\ t.hasRoot
  /\ t.root.branch
  /\ \E k \in 1 .. numNodes : t.root.nodes[k].branch

\* ------------------------------------------------------------------------
\* Properties
\* ------------------------------------------------------------------------

\* C1: RangeDelete(start, end, nil) with start <= end removes exactly the
\* items with start <= cell <= end: a full Scan afterwards yields, in order,
\* the items of the tree before the call whose cell is outside [start, end].
C1_RangeDeleteNilRemovesExactlyTheRange ==
  (RangeDeleteDone /\ obs.fn.isnil /\ obs.a <= obs.b)
    => ScanItems(tr) = RejectItems(ScanItems(obs.pre), obs.a, obs.b)

\* C2: RangeDelete(start, end, iter) with start <= end and an iter that
\* always answers ok = true invokes iter once for each item with cell in
\* [start, end], in Scan order, and for no other item; it removes exactly
\* the items iter asked to delete, and Count decreases by their number.
C2_RangeDeleteAsksEveryItemInRange ==
  (RangeDeleteDone /\ ~obs.fn.isnil /\ obs.fn.stop = 0 /\ obs.a <= obs.b)
    => /\ obs.log = InRange(obs.pre, obs.a, obs.b)
       /\ ScanItems(tr) =
            RemoveMarked(ScanItems(obs.pre), obs.a, obs.b, obs.fn.del, 0)
       /\ Count(tr) = Count(obs.pre)
                      - Cardinality(obs.fn.del
                                    \cap (1 .. Len(InRange(obs.pre, obs.a, obs.b))))

\* the iter of the RangeDelete call that has just returned answered
\* ok = false at some invocation
StoppedByIter ==
  /\ RangeDeleteDone
  /\ ~obs.fn.isnil
  /\ obs.fn.stop >= 1
  /\ Len(obs.log) >= obs.fn.stop

\* C3 as stated: when iter answers ok = false at its k-th invocation, the
\* deletions asked by the first k - 1 invocations are applied, the item of
\* the k-th invocation is not deleted whatever shouldDelete came with
\* ok = false, and iter is not invoked again.
C3_StopKeepsTheCurrentItem ==
  StoppedByIter
    => /\ Len(obs.log) = obs.fn.stop
       /\ ScanItems(tr) =
            RemoveMarked(ScanItems(obs.pre), obs.a, obs.b,
                         obs.fn.del \ {obs.fn.stop}, 0)

\* C3 as amended: when iter answers ok = false at its k-th invocation, the
\* deletions asked by the first k - 1 invocations are applied, the item of
\* the k-th invocation is deleted exactly when shouldDelete = true came
\* with ok = false, and iter is not invoked again.
C3_StopAppliesTheCurrentAnswer ==
  StoppedByIter
    => /\ Len(obs.log) = obs.fn.stop
       /\ obs.log = SubSeq(InRange(obs.pre, obs.a, obs.b), 1, obs.fn.stop)
       /\ ScanItems(tr) =
            RemoveMarked(ScanItems(obs.pre), obs.a, obs.b, obs.fn.del, 0)
       /\ Count(tr) = Count(obs.pre) - Cardinality(obs.fn.del)

\* witness of C3: a stop at the second invocation in a tree of depth two,
\* after a deletion, with items left unvisited
C3_Witness ==
  /\ StoppedByIter
  /\ obs.fn.stop = 2
  /\ 1 \in obs.fn.del
  /\ IsDeep(obs.pre)
  /\ Len(InRange(obs.pre, obs.a, obs.b)) > 2

\* C4: after any Inserts, in any order, a Scan whose iter always answers
\* true visits as many items as were inserted, and the cells it visits are
\* the inserted cells in non-decreasing order (ref holds the inserted
\* items in order).
C4_InsertThenScanIsSorted ==
  /\ Len(ScanItems(tr)) = Len(ref)
  /\ CellsOf(ScanItems(tr)) = CellsOf(ref)
  /\ IsSorted(CellsOf(ScanItems(tr)))

\* witness of C4: insertions that split the root and then a child of it
C4_Witness == IsDeep(tr) /\ Count(tr) = MaxCount /\ Len(ref) = MaxCount

\* a Range call with an iter that always answers true has just returned
FullRangeDone == obs.op = "Range" /\ ~obs.fn.isnil /\ obs.fn.stop = 0

\* C5: Range(pivot) with an iter that always answers true visits exactly
\* the items a full Scan visits whose cell is >= pivot, in the same order.
C5_RangeEqualsFilteredScan ==
  FullRangeDone
    => obs.log = SelectItems(ScanItems(obs.pre), obs.a, MaxCell)

\* witness of C5: a pivot inside a tree of depth two, with items on both
\* sides of it
C5_Witness ==
  /\ FullRangeDone
  /\ IsDeep(obs.pre)
  /\ Len(obs.log) > 0
  /\ Len(obs.log) < Count(obs.pre)

RECURSIVE Beneath(_)
RECURSIVE BeneathSum(_, _)
\* the number of items stored beneath a node
Beneath(n) == IF n.branch THEN BeneathSum(n.nodes, 1) ELSE Len(n.items)

BeneathSum(nodes, k) ==
  IF k > Len(nodes) THEN 0 ELSE Beneath(nodes[k]) + BeneathSum(nodes, k + 1)

RECURSIVE NodeCountsOK(_)
NodeCountsOK(n) ==
  /\ n.count = Beneath(n)
  /\ n.branch => \A k \in 1 .. Len(n.nodes) : NodeCountsOK(n.nodes[k])

\* C6: every node's count is the number of items stored beneath it,
\* Tree.count is the root's count (0 while the root is absent), and Count()
\* is the number of items a full Scan visits.
C6_CountConsistency ==
  /\ ~tr.hasRoot => Count(tr) = 0
  /\ tr.hasRoot => (NodeCountsOK(tr.root) /\ Count(tr) = tr.root.count)
  /\ Count(tr) = Len(ScanItems(tr))

\* witness of C6: a RangeDelete that removed some but not all items of a
\* tree of depth two
C6_Witness ==
  /\ RangeDeleteDone
  /\ IsDeep(obs.pre)
  /\ Count(tr) < Count(obs.pre)
  /\ Count(tr) > 0

\* x occurs in the sequence s
Occurs(s, x) == \E k \in 1 .. Len(s) : s[k] = x

\* C7: Delete(cell, data) removes one item with that cell and payload and
\* decreases Count by 1 when such an item is stored; otherwise it leaves
\* the tree as it was.  No other item is removed.
C7_DeleteRemovesOneMatch ==
  obs.op = "Delete"
    => LET x == Item(obs.a, obs.data)
       IN IF Occurs(ScanItems(obs.pre), x)
          THEN /\ SortItems(ScanItems(tr))
                    = RemoveOne(SortItems(ScanItems(obs.pre)), x)
               /\ Count(tr) = Count(obs.pre) - 1
          ELSE tr = obs.pre

\* witness of C7: a Delete that removes one of two items with the same
\* cell and different payloads
C7_Witness ==
  /\ obs.op = "Delete"
  /\ Count(tr) = Count(obs.pre) - 1
  /\ Len(InRange(obs.pre, obs.a, obs.a)) >= 2
  /\ \E k \in 1 .. Len(ScanItems(tr)) :
       ScanItems(tr)[k].cell = obs.a /\ ScanItems(tr)[k].data # obs.data

Reverse(s) == [k \in 1 .. Len(s) |-> s[Len(s) + 1 - k]]

\* C8: DeleteWhen(cell, cond) with a non-nil cond invokes cond on the
\* items with that cell only, in reverse stored order, up to the first
\* invocation that answers true; that item alone is removed and Count
\* decreases by 1.  When cond answers false every time it is invoked once
\* for each stored item with that cell and nothing is removed.
C8_DeleteWhenWalksBackwards ==
  (obs.op = "DeleteWhen" /\ ~obs.fn.isnil)
    => LET dups == InRange(obs.pre, obs.a, obs.a)
           at == obs.fn.at
       IN IF at >= 1 /\ at <= Len(dups)
          THEN /\ obs.log = SubSeq(Reverse(dups), 1, at)
               /\ ScanItems(tr) =
                    RemoveMarked(ScanItems(obs.pre), obs.a, obs.a,
                                 {Len(dups) + 1 - at}, 0)
               /\ Count(tr) = Count(obs.pre) - 1
          ELSE /\ obs.log = Reverse(dups)
               /\ tr = obs.pre

\* witness of C8: cond answers true at its second invocation, on an item
\* whose payload differs from the first one's
C8_Witness ==
  /\ obs.op = "DeleteWhen"
  /\ ~obs.fn.isnil
  /\ obs.fn.at = 2
  /\ Len(obs.log) = 2
  /\ obs.log[1].data # obs.log[2].data
  /\ Count(tr) = Count(obs.pre) - 1

RECURSIVE ReplaceMarked(_, _, _, _, _)
\* items with the payload of the j-th item of the given cell (ranks counted
\* from k + 1) set to newData
ReplaceMarked(items, cell, j, newData, k) ==
  IF items = <<>>
  THEN <<>>
  ELSE LET h == Head(items)
       IN IF h.cell = cell
          THEN <<IF k + 1 = j THEN Item(cell, newData) ELSE h>>
               \o ReplaceMarked(Tail(items), cell, j, newData, k + 1)
          ELSE <<h>> \o ReplaceMarked(Tail(items), cell, j, newData, k)

\* C9: InsertOrReplace(cell, data, cond) with a non-nil cond: when cond
\* answers replace = true for a stored item with that cell, the first such
\* item of the backward walk gets newData, nothing is added, the other
\* items and Count are unchanged; when cond answers false for every stored
\* item with that cell, or there is none, one item (cell, data) is added
\* and Count increases by 1, also when the leaf is at capacity and splits.
C9_InsertOrReplace ==
  obs.op = "InsertOrReplace"
    => LET dups == InRange(obs.pre, obs.a, obs.a)
           at == obs.fn.at
       IN IF at >= 1 /\ at <= Len(dups)
          THEN /\ obs.log = SubSeq(Reverse(dups), 1, at)
               /\ ScanItems(tr) =
                    ReplaceMarked(ScanItems(obs.pre), obs.a,
                                  Len(dups) + 1 - at, obs.fn.newData, 0)
               /\ Count(tr) = Count(obs.pre)
          ELSE /\ obs.log = Reverse(dups)
               /\ SortItems(ScanItems(tr))
                    = SortedInsert(SortItems(ScanItems(obs.pre)),
                                   Item(obs.a, obs.data))
               /\ Count(tr) = Count(obs.pre) + 1

\* witness of C9: cond answers replace = true at its second invocation and
\* the payload of that item changes
C9_Witness ==
  /\ obs.op = "InsertOrReplace"
  /\ obs.fn.at = 2
  /\ Len(obs.log) = 2
  /\ obs.log[2].data # obs.fn.newData
  /\ obs.pre.root.branch

\* C10: Insert(cell, data) adds exactly one item: Count increases by 1 and
\* the stored items are those stored before plus one (cell, data), also
\* when an item with that cell and payload is stored already.
C10_InsertAddsOne ==
  obs.op = "Insert"
    => /\ Count(tr) = Count(obs.pre) + 1
       /\ SortItems(ScanItems(tr))
            = SortedInsert(SortItems(ScanItems(obs.pre)), Item(obs.a, obs.data))

\* witness of C10: an Insert of an item that is stored already, into a
\* leaf at capacity that splits
C10_Witness ==
  /\ obs.op = "Insert"
  /\ Occurs(ScanItems(obs.pre), Item(obs.a, obs.data))
  /\ obs.pre.hasRoot
  /\ ~obs.pre.root.branch
  /\ tr.root.branch


\* the root holds nothing: it is a leaf without items
RootIsEmptyLeaf(t) ==
  /\ ~t.root.branch
  /\ t.root.items = <<>>
  /\ t.root.count = 0

\* C11: once every inserted item has been deleted by its cell and payload,
\* in any order, Count() is 0 and the root is a leaf that holds no items.
C11_RoundTripLeavesEmptyLeaf ==
  (tr.hasRoot /\ ref = <<>>) => (Count(tr) = 0 /\ RootIsEmptyLeaf(tr))

\* witness of C11: the Delete that removes the last stored item
C11_Witness ==
  /\ obs.op = "Delete"
  /\ Count(obs.pre) = 1
  /\ ref = <<>>
  /\ tr.hasRoot


\* C12: Scan and Range with a nil iter complete without failure and leave
\* the tree as it was, on every tree, also one that holds items (for Range:
\* items with cell >= pivot).
C12_NilIterIsNoOp ==
  (obs.op \in {"Scan", "Range"} /\ obs.fn.isnil)
    => (~obs.panic /\ tr = obs.pre)


\* C13: DeleteWhen(cell, nil) removes no item and leaves Count as it was on
\* every tree, also one that holds an item with that cell and a nil payload.
C13_DeleteWhenNilIsNoOp ==
  (obs.op = "DeleteWhen" /\ obs.fn.isnil)
    => (ScanItems(tr) = ScanItems(obs.pre) /\ Count(tr) = Count(obs.pre))


\* the items a Scan or Range call that has just returned would visit if its
\* iter never answered false
FullOrder ==
  IF obs.op = "Scan"
  THEN ScanItems(obs.pre)
  ELSE SelectItems(ScanItems(obs.pre), obs.a, MaxCell)

\* a Scan or Range call has just returned whose iter answered false at an
\* invocation that took place
StoppedScan ==
  /\ obs.op \in {"Scan", "Range"}
  /\ ~obs.fn.isnil
  /\ obs.fn.stop >= 1
  /\ obs.fn.stop <= Len(FullOrder)

\* C14: when the iter of Scan or Range answers false at its k-th
\* invocation, exactly k invocations are made and they are the first k
\* items of the full order (of Scan, or of Range from the pivot).
C14_EarlyStopVisitsPrefix ==
  StoppedScan => obs.log = SubSeq(FullOrder, 1, obs.fn.stop)

\* witness of C14: a Scan of a tree of depth two stopped inside the nested
\* branch, with items left unvisited
C14_Witness ==
  /\ StoppedScan
  /\ obs.op = "Scan"
  /\ IsDeep(obs.pre)
  /\ obs.fn.stop = 2
  /\ Len(obs.log) = 2
  /\ Count(obs.pre) > 2


\* a call other than an insertion has just returned that found the root
\* absent
NoRootCallDone ==
  /\ obs.op \in {"Delete", "DeleteWhen", "Scan", "Range", "RangeDelete"}
  /\ ~obs.pre.hasRoot

\* C15: on a tree whose root is absent, Delete, DeleteWhen, Scan, Range and
\* RangeDelete, with any arguments and with nil callbacks too, invoke no
\* callback, do not fail, and leave Count at 0 and the root absent.
C15_AbsentRootNoOps ==
  NoRootCallDone
    => /\ obs.log = <<>>
       /\ ~obs.panic
       /\ tr = obs.pre
       /\ Count(tr) = 0
       /\ ~tr.hasRoot

\* witness of C15: RangeDelete over every cell with a nil iter on a tree
\* never inserted into
C15_Witness ==
  /\ NoRootCallDone
  /\ obs.op = "RangeDelete"
  /\ obs.fn.isnil
  /\ obs.a = 0
  /\ obs.b = MaxCell


\* an Insert, InsertOrReplace, Delete or DeleteWhen call has just returned
PointCallDone ==
  obs.op \in {"Insert", "InsertOrReplace", "Delete", "DeleteWhen"}

\* the reference multiset (kept sorted) after the call that has just
\* returned, from the reference before it: Insert adds its item;
\* InsertOrReplace overwrites the payload of the item its cond accepted, or
\* adds its item when cond accepted none; Delete removes one matching item;
\* DeleteWhen removes the item its cond accepted, and nothing when cond is
\* nil or accepted none
ReferenceAfter(before) ==
  LET accepted == ~obs.fn.isnil /\ obs.fn.at >= 1 /\ obs.fn.at <= Len(obs.log)
  IN CASE obs.op = "Insert" -> SortedInsert(before, Item(obs.a, obs.data))
       [] obs.op = "InsertOrReplace" ->
            IF accepted
            THEN SortedInsert(RemoveOne(before, obs.log[obs.fn.at]),
                              Item(obs.a, obs.fn.newData))
            ELSE SortedInsert(before, Item(obs.a, obs.data))
       [] obs.op = "Delete" -> RemoveOne(before, Item(obs.a, obs.data))
       [] obs.op = "DeleteWhen" ->
            IF accepted /\ obs.log[obs.fn.at].cell = obs.a
            THEN RemoveOne(before, obs.log[obs.fn.at])
            ELSE before
       [] OTHER -> before

\* the tree after the call agrees with the reference updated by the call
RefinesReference ==
  LET expect == ReferenceAfter(SortItems(ScanItems(obs.pre)))
  IN /\ CellsOf(ScanItems(tr)) = CellsOf(expect)
     /\ SortItems(ScanItems(tr)) = expect
     /\ Count(tr) = Len(expect)

\* C16: across any interleaving of Insert, InsertOrReplace, Delete and
\* DeleteWhen calls, each call keeps the tree in step with a reference
\* multiset updated by the same call: the cells of a full Scan are the
\* sorted cells of the reference, the (cell, payload) pairs are the same
\* multiset, and Count() is the size of the reference.
C16_SortedMultisetRefinement == PointCallDone => RefinesReference

\* the same for every call except DeleteWhen with a nil cond
RefinementWithPredicates ==
  (PointCallDone /\ ~(obs.op = "DeleteWhen" /\ obs.fn.isnil)) => RefinesReference


RECURSIVE SpansOK(_, _, _, _)
\* at the branch n, reached with shift bits and accumulated base, to which
\* the keys of the set routed are routed: the span computed for each child
\* is the set of the keys routed to that child, and so on beneath
SpansOK(n, bits, base, routed) ==
  n.branch =>
    \A index \in 0 .. numNodes - 1 :
      LET toChild == {c \in routed : cellIndex(c, bits) = index}
      IN /\ cellStartOf(base, index, bits) .. cellEndOf(base, index, bits)
              = toChild
         /\ SpansOK(n.nodes[index + 1], bits - numBits,
                    childBase(base, index), toChild)

\* C17: at every branch of the tree, at any depth, the interval
\* [cellStart, cellEnd] that RangeDelete computes for child i from the
\* shift and the accumulated base is exactly the set of keys routed to
\* child i.
C17_ChildSpanIsRoutedKeys ==
  tr.hasRoot => SpansOK(tr.root, RootBits, 0, Cells)


\* the child of the root that a RangeDelete call from start visits first
FirstIndex(start) == rdStartIndex(FALSE, start, RootBits)

\* the RangeDelete call that has just returned began by a recursive call on
\* a branch: the root was a branch and its first visited child a branch
FirstCallOnBranch ==
  /\ RangeDeleteDone
  /\ obs.a <= obs.b
  /\ obs.pre.hasRoot
  /\ obs.pre.root.branch
  /\ obs.pre.root.nodes[FirstIndex(obs.a) + 1].branch

\* the result of that recursive call
FirstCallResult ==
  nodeRangeDelete(obs.pre.root.nodes[FirstIndex(obs.a) + 1], obs.a, obs.b,
                  RootBits - numBits, childBase(0, FirstIndex(obs.a)),
                  FALSE, obs.fn, <<>>)

\* the items stored beneath a node, in Scan order
ItemsBeneath(n) == scan(n, ForEver, <<>>).log

\* C18: a recursive RangeDelete call on a branch reports ok = false to its
\* parent only if iter answered ok = false during it or an item with
\* cell > end is stored beneath the branch; a branch whose visited children
\* were all empty or dropped whole does not stop the traversal.
C18_BranchStopsOnlyOnRequest ==
  (FirstCallOnBranch /\ ~FirstCallResult.ok)
    => \/ /\ ~obs.fn.isnil
          /\ obs.fn.stop >= 1
          /\ Len(FirstCallResult.log) >= obs.fn.stop
       \/ \E k \in 1 .. Len(ItemsBeneath(obs.pre.root.nodes[FirstIndex(obs.a) + 1])) :
            ItemsBeneath(obs.pre.root.nodes[FirstIndex(obs.a) + 1])[k].cell > obs.b


RECURSIVE RadixOK(_, _, _)
\* beneath the node n, reached with shift bits, to which the keys of the
\* set routed are routed: every leaf holds its cells in non-decreasing
\* order and holds only keys routed to it
RadixOK(n, bits, routed) ==
  IF n.branch
  THEN \A index \in 0 .. numNodes - 1 :
         RadixOK(n.nodes[index + 1], bits - numBits,
                 {c \in routed : cellIndex(c, bits) = index})
  ELSE /\ IsSorted(CellsOf(n.items))
       /\ \A k \in 1 .. Len(n.items) : n.items[k].cell \in routed

\* C19: in every reachable state each leaf's cells are non-decreasing and
\* every item beneath child i of a branch at shift s has
\* cellIndex(cell, s) = i, for every branch above it; so the cells of a
\* full Scan are non-decreasing.
C19_RadixPartition ==
  tr.hasRoot
    => /\ RadixOK(tr.root, RootBits, Cells)
       /\ IsSorted(CellsOf(ScanItems(tr)))

\* witness of C19: a tree of depth two that holds items beneath both
\* children of the root
C19_Witness ==
  /\ IsDeep(tr)
  /\ \A k \in 1 .. numNodes : tr.root.nodes[k].count > 0


RECURSIVE CapacityOK(_, _)
\* beneath the node n, reached with shift bits: a leaf above the maximum
\* depth holds at most maxItems items, and no node at the maximum depth is
\* a branch
CapacityOK(n, bits) ==
  IF n.branch
  THEN /\ ~maxDepth(bits)
       /\ \A k \in 1 .. Len(n.nodes) : CapacityOK(n.nodes[k], bits - numBits)
  ELSE maxDepth(bits) \/ Len(n.items) <= maxItems

RECURSIVE HasFullDeepLeaf(_, _)
\* a leaf at the maximum depth beneath n holds more than maxItems items
HasFullDeepLeaf(n, bits) ==
  IF n.branch
  THEN \E k \in 1 .. Len(n.nodes) : HasFullDeepLeaf(n.nodes[k], bits - numBits)
  ELSE maxDepth(bits) /\ Len(n.items) > maxItems

\* C20: in every reachable state a leaf that is not at the maximum depth
\* holds at most maxItems items; only a leaf at the maximum depth holds
\* more, and it is never split into a branch.
C20_LeafCapacity ==
  tr.hasRoot => CapacityOK(tr.root, RootBits)

\* witness of C20: an insertion into a tree whose leaf at the maximum depth
\* holds more than maxItems items
C20_Witness ==
  /\ obs.op \in {"Insert", "InsertOrReplace"}
  /\ Count(tr) = Count(obs.pre) + 1
  /\ HasFullDeepLeaf(tr.root, RootBits)


RECURSIVE BranchFloorOK(_)
\* every branch beneath (and including) n has a count above minItems
BranchFloorOK(n) ==
  n.branch =>
    /\ n.count > minItems
    /\ \A k \in 1 .. Len(n.nodes) : BranchFloorOK(n.nodes[k])

\* C21: in every reachable state, after any mix of inserts, point deletes
\* and range deletes (with or without iter, stopped early or not), every
\* branch has count > minItems: a branch whose count falls to minItems or
\* less has become a leaf when the operation returns.
C21_CompactionFloor ==
  tr.hasRoot => BranchFloorOK(tr.root)

\* witness of C21: a RangeDelete stopped by its iter that left the items
\* of a tree of depth two in a root compacted into a leaf
C21_Witness ==
  /\ StoppedByIter
  /\ IsDeep(obs.pre)
  /\ ~tr.root.branch
  /\ Count(tr) > 0


RECURSIVE NodeFormOK(_, _)
\* the form of every node beneath (and including) n, reached with shift
\* bits: a branch has nil items and numNodes children and is above the
\* maximum depth, so that bits - numBits does not underflow; a leaf has no
\* children and, when it is empty, nil items
NodeFormOK(n, bits) ==
  IF n.branch
  THEN /\ n.items = <<>>
       /\ n.cap = 0
       /\ Len(n.nodes) = numNodes
       /\ ~maxDepth(bits)
       /\ bits - numBits >= 0
       /\ \A k \in 1 .. Len(n.nodes) : NodeFormOK(n.nodes[k], bits - numBits)
  ELSE /\ n.nodes = <<>>
       /\ (Len(n.items) = 0 => n.cap = 0)

\* C22: in every reachable state a branch has a nil items sequence and
\* exactly numNodes children, a leaf has no children and, when it holds no
\* item, a nil items sequence; no node at the maximum depth is a branch, so
\* the shift never underflows on descent.
C22_NodeForm ==
  tr.hasRoot => NodeFormOK(tr.root, RootBits)

\* witness of C22: a deletion took the last item of a leaf beneath a root
\* that stays a branch
C22_Witness ==
  /\ obs.op \in {"Delete", "DeleteWhen", "RangeDelete"}
  /\ obs.pre.hasRoot /\ obs.pre.root.branch
  /\ tr.root.branch
  /\ \E k \in 1 .. numNodes :
       /\ ~obs.pre.root.nodes[k].branch
       /\ Len(obs.pre.root.nodes[k].items) > 0
       /\ tr.root.nodes[k] = EmptyNode


\* inserts, point deletes and range deletes in both orders of start and end
NextReversed ==
  Insert \/ Delete \/ RangeDelete \/ RangeDeleteReversed \/ Return

SpecReversed == Init /\ [][NextReversed]_vars

\* a RangeDelete with start > end has just returned
ReversedDone == obs.op = "RangeDelete" /\ obs.a > obs.b

\* C23: RangeDelete with start > end removes nothing on any reachable tree:
\* with a nil iter no item is deleted and no child is dropped, a non-nil
\* iter is never invoked, and the stored items, the structure and Count are
\* as before the call.
C23_ReversedRangeRemovesNothing ==
  ReversedDone => (tr = obs.pre /\ obs.log = <<>>)

\* witness of C23: a RangeDelete with start > end returned on a tree of
\* depth two that holds an item at or above start and one at or below end
C23_Witness ==
  /\ ReversedDone
  /\ IsDeep(obs.pre)
  /\ \E k \in 1 .. Len(ScanItems(obs.pre)) : ScanItems(obs.pre)[k].cell >= obs.a
  /\ \E k \in 1 .. Len(ScanItems(obs.pre)) : ScanItems(obs.pre)[k].cell <= obs.b


RECURSIVE IsSubSeq(_, _)
\* s is t with some elements left out
IsSubSeq(s, t) ==
  IF s = <<>> THEN TRUE
  ELSE IF t = <<>> THEN FALSE
  ELSE IF Head(s) = Head(t) THEN IsSubSeq(Tail(s), Tail(t))
  ELSE IsSubSeq(s, Tail(t))

RECURSIVE WithoutDeleted(_, _, _, _)
\* items, in Scan order, without the items iter was shown (log, from its
\* k-th entry on) and answered shouldDelete = true for
WithoutDeleted(items, log, del, k) ==
  IF items = <<>> \/ k > Len(log)
  THEN items
  ELSE IF Head(items) = log[k]
  THEN IF k \in del
       THEN WithoutDeleted(Tail(items), log, del, k + 1)
       ELSE <<Head(items)>> \o WithoutDeleted(Tail(items), log, del, k + 1)
  ELSE <<Head(items)>> \o WithoutDeleted(Tail(items), log, del, k)

\* the items a RangeDelete call must leave stored: with a nil iter those
\* outside [start, end], with an iter those it did not ask to delete
Survivors ==
  IF obs.fn.isnil
  THEN RejectItems(ScanItems(obs.pre), obs.a, obs.b)
  ELSE WithoutDeleted(ScanItems(obs.pre), obs.log, obs.fn.del, 1)

\* C24: every item that a RangeDelete call does not delete (below start,
\* above end, kept by iter, or after an early stop) is still stored
\* afterwards with its payload, and the surviving items keep their relative
\* order.
C24_SurvivorsPreserved ==
  RangeDeleteDone => IsSubSeq(Survivors, ScanItems(tr))

\* the same for the calls with a non-nil iter only
C24_SurvivorsPreservedWithIter ==
  (RangeDeleteDone /\ ~obs.fn.isnil) => ScanItems(tr) = Survivors


RECURSIVE SplitOK(_, _, _, _)
\* pre and post are the node reached with shift bits before and after the
\* insertion of the item it: where a leaf of pre has become a branch, the
\* branch stores the former items and it, each once, every item beneath the
\* child cellIndex selects (at this level and beneath a child that was
\* split again), and its count is the former count plus one
SplitOK(pre, post, it, bits) ==
  IF pre.branch
  THEN /\ post.branch
       /\ SplitOK(pre.nodes[cellIndex(it.cell, bits) + 1],
                  post.nodes[cellIndex(it.cell, bits) + 1],
                  it, bits - numBits)
  ELSE post.branch =>
         /\ ~maxDepth(bits)
         /\ Len(pre.items) >= maxItems
         /\ post.count = pre.count + 1
         /\ SortItems(ItemsBeneath(post)) = SortedInsert(SortItems(pre.items), it)
         /\ RadixOK(post, bits, Cells)
         /\ NodeCountsOK(post)

RECURSIVE HasSplit(_, _)
\* a leaf of pre is a branch in post
HasSplit(pre, post) ==
  IF pre.branch
  THEN post.branch
       /\ \E k \in 1 .. Len(pre.nodes) : HasSplit(pre.nodes[k], post.nodes[k])
  ELSE post.branch

\* an Insert or InsertOrReplace has just returned and has stored its item
\* in a tree that had a root
InsertedDone ==
  /\ obs.op \in {"Insert", "InsertOrReplace"}
  /\ obs.pre.hasRoot
  /\ Count(tr) = Count(obs.pre) + 1

\* C25: when a leaf at capacity above the maximum depth receives an insert
\* and splits into a branch, every former item is stored exactly once
\* beneath the new branch, in the child cellIndex selects, and when the
\* insert has returned the node's count is its previous count + 1, also
\* when a child splits again.
C25_SplitPreservesContent ==
  InsertedDone
    => SplitOK(obs.pre.root, tr.root, Item(obs.a, obs.data), RootBits)

\* witness of C25: an insert split a leaf beneath the root that held two
\* different payloads, and the child that received the items split again
C25_Witness ==
  /\ InsertedDone
  /\ HasSplit(obs.pre.root, tr.root)
  /\ IsDeep(tr)
  /\ \E j, k \in 1 .. Len(ScanItems(obs.pre)) :
       ScanItems(obs.pre)[j].data # ScanItems(obs.pre)[k].data


\* the node compactBranch is applied to: the root (at = 0) or child at of
\* the root
NodeAt(t, at) == IF at = 0 THEN t.root ELSE t.root.nodes[at]

\* compactBranch applied to a branch of a tree built by Insert and Delete,
\* whatever its count
CompactBranch ==
  /\ obs.op = "idle"
  /\ tr.hasRoot
  /\ tr.root.branch
  /\ \E at \in 0 .. numNodes :
       /\ NodeAt(tr, at).branch
       /\ tr' = IF at = 0
                THEN [tr EXCEPT !.root = compactBranch(@)]
                ELSE [tr EXCEPT !.root.nodes[at] = compactBranch(@)]
       /\ obs' = Obs("compactBranch", at, 0, NilData, NilCond,
                     [log |-> <<>>, panic |-> FALSE])
       /\ UNCHANGED <<payloads, ref>>

\* the caller takes the result of a call on the tree; a tree compacted out
\* of turn is not used further
ReturnOfCall ==
  /\ obs.op # "compactBranch"
  /\ Return

\* compactBranch on the branches of the trees Insert and Delete build, on
\* every payload
NextCompact ==
  \/ Insert
  \/ Delete
  \/ CompactBranch
  \/ ReturnOfCall

SpecCompact == InitData /\ [][NextCompact]_vars

\* compactBranch has just been applied
CompactDone == obs.op = "compactBranch"

\* C26: compacting a branch into a leaf yields a leaf whose items are
\* exactly the multiset of the items stored beneath the branch before, at
\* any nesting depth, in non-decreasing order of cell, and whose count is
\* the number of these items: no item is lost or duplicated.
C26_CompactionPreservesContent ==
  CompactDone
    => LET before == NodeAt(obs.pre, obs.a)
           after == NodeAt(tr, obs.a)
       IN /\ ~after.branch
          /\ after.nodes = <<>>
          /\ SortItems(after.items) = SortItems(ItemsBeneath(before))
          /\ IsSorted(CellsOf(after.items))
          /\ after.count = Len(after.items)
          /\ after.count = Beneath(before)

\* witness of C26: the root was compacted while a child of it was a branch,
\* with items beneath more than one child and with different payloads
C26_Witness ==
  /\ CompactDone
  /\ obs.a = 0
  /\ IsDeep(obs.pre)
  /\ Len(tr.root.items) > maxItems
  /\ \E j, k \in 1 .. Len(tr.root.items) :
       /\ tr.root.items[j].cell # tr.root.items[k].cell
       /\ tr.root.items[j].data # tr.root.items[k].data


RECURSIVE Height(_)
RECURSIVE MaxHeight(_, _)
\* the number of branch levels above the deepest leaf beneath n
Height(n) == IF n.branch THEN 1 + MaxHeight(n.nodes, 1) ELSE 0

MaxHeight(nodes, k) ==
  IF k > Len(nodes) THEN 0
  ELSE LET h == Height(nodes[k])
           r == MaxHeight(nodes, k + 1)
       IN IF h >= r THEN h ELSE r

RECURSIVE LeafOf(_, _, _)
\* the leaf that the descent for cell ends at and the shift it is reached
\* with
LeafOf(n, cell, bits) ==
  IF n.branch
  THEN LeafOf(n.nodes[cellIndex(cell, bits) + 1], cell, bits - numBits)
  ELSE [leaf |-> n, bits |-> bits]

\* an Insert has just returned and every item inserted so far (ref holds
\* one entry for each Insert) has the cell of this Insert
DupInsertDone ==
  /\ obs.op = "Insert"
  /\ \A k \in 1 .. Len(ref) : ref[k].cell = obs.a

\* C27: inserting any number of items that share one cell makes the splits
\* recurse at most down to the maximum depth, where the leaf takes the item
\* without splitting; every such Insert returns, and after N such inserts
\* Count() = N.
C27_DupInsertsEndAtMaxDepth ==
  DupInsertDone
    => /\ Count(tr) = Len(ref)
       /\ Len(ScanItems(tr)) = Len(ref)
       /\ Height(tr.root) <= RootBits \div numBits
       /\ LET f == LeafOf(tr.root, obs.a, RootBits)
          IN /\ f.bits >= 0
             /\ Len(f.leaf.items) = Len(ref)
             /\ Len(ref) > maxItems => f.bits < numBits

\* witness of C27: more than maxItems inserts of one cell, with different
\* payloads, have returned and the items are in one leaf at shift 0
C27_Witness ==
  /\ DupInsertDone
  /\ Len(ref) > maxItems
  /\ LeafOf(tr.root, obs.a, RootBits).bits = 0
  /\ Len(LeafOf(tr.root, obs.a, RootBits).leaf.items) > maxItems
  /\ \E j, k \in 1 .. Len(ref) : ref[j].data # ref[k].data


\* the number of occurrences of x in the sequence s
CountOf(s, x) == Cardinality({k \in 1 .. Len(s) : s[k] = x})

\* C28: within one InsertOrReplace call cond is invoked at most once for
\* each stored item and only on items whose cell is the inserted cell; when
\* the leaf is at capacity and no duplicate asks for replacement, cond is
\* dropped before the split and the retry, so it is not invoked again on
\* the re-entered insert.
C28_CondOncePerDuplicate ==
  obs.op = "InsertOrReplace"
    => /\ \A k \in 1 .. Len(obs.log) : obs.log[k].cell = obs.a
       /\ \A k \in 1 .. Len(obs.log) :
            CountOf(obs.log, obs.log[k])
              <= CountOf(ScanItems(obs.pre), obs.log[k])
       /\ Len(obs.log) <= DupCount(obs.pre, obs.a)

\* witness of C28: cond answered false for each of the maxItems duplicates
\* in a leaf at capacity, which was then split for the new item
C28_Witness ==
  /\ obs.op = "InsertOrReplace"
  /\ obs.pre.hasRoot
  /\ HasSplit(obs.pre.root, tr.root)
  /\ Count(tr) = Count(obs.pre) + 1
  /\ Len(obs.log) = maxItems
  /\ DupCount(obs.pre, obs.a) = maxItems


\* a Scan or Range call with a non-nil iter has just returned
ReadDone == obs.op \in {"Scan", "Range"} /\ ~obs.fn.isnil

\* C29: Scan and Range are read-only: whether iter runs to the end or stops
\* early, the structure of the tree, the stored items, the counts of the
\* nodes and Count() are the same after the call as before it.
C29_ScanAndRangeReadOnly ==
  ReadDone
    => /\ tr = obs.pre
       /\ Count(tr) = Count(obs.pre)
       /\ ScanItems(tr) = ScanItems(obs.pre)

\* witness of C29: a Scan of a tree of depth two stopped by its iter before
\* the last item
C29_Witness ==
  /\ obs.op = "Scan"
  /\ ~obs.fn.isnil
  /\ obs.fn.stop >= 1
  /\ Len(obs.log) = obs.fn.stop
  /\ Len(obs.log) < Count(obs.pre)
  /\ IsDeep(obs.pre)


\* leaves at the maximum depth filled beyond maxItems, then point deletes
\* and range deletes, on nil payloads
NextLeaf ==
  \/ InsertSibling
  \/ Delete
  \/ RangeDelete
  \/ Return

SpecLeaf == Init /\ [][NextLeaf]_vars

RECURSIVE BackingOK(_)
\* beneath (and including) n every non-empty leaf holds more items than 40%
\* of the capacity of its backing store, and no more than the capacity
BackingOK(n) ==
  IF n.branch
  THEN \A k \in 1 .. Len(n.nodes) : BackingOK(n.nodes[k])
  ELSE Len(n.items) > 0
         => /\ Len(n.items) > (n.cap * 40) \div 100
            /\ Len(n.items) <= n.cap

\* the capacity c halved k times
Halved(c, k) == c \div Pow2(k)

RECURSIVE ShrinkOK(_, _, _)
\* pre and post are a node before and after a call that halves a capacity
\* at most most times in a row: a leaf that lost items and kept some has
\* its capacity halved as often as needed, and no more often, for the items
\* left to exceed 40% of it
ShrinkOK(pre, post, most) ==
  IF pre.branch /\ post.branch
  THEN \A k \in 1 .. Len(pre.nodes) : ShrinkOK(pre.nodes[k], post.nodes[k], most)
  ELSE (/\ ~pre.branch /\ ~post.branch
        /\ Len(post.items) > 0
        /\ Len(post.items) < Len(pre.items))
         => \E k \in 0 .. most :
              /\ post.cap = Halved(pre.cap, k)
              /\ post.cap >= Len(post.items)
              /\ \A j \in 0 .. k - 1 :
                   Len(post.items) <= (Halved(pre.cap, j) * 40) \div 100

RECURSIVE HalvedTwice(_, _)
\* a leaf beneath pre kept an item and a quarter of its capacity or less
HalvedTwice(pre, post) ==
  IF pre.branch /\ post.branch
  THEN \E k \in 1 .. Len(pre.nodes) : HalvedTwice(pre.nodes[k], post.nodes[k])
  ELSE /\ ~pre.branch /\ ~post.branch
       /\ Len(post.items) > 0
       /\ pre.cap >= 4
       /\ post.cap <= Halved(pre.cap, 2)

\* C30: in every reachable state every non-empty leaf has
\* len(items) > cap(items) * 40 / 100; a point delete reallocates to half
\* the capacity and a RangeDelete halves the capacity repeatedly whenever a
\* removal would violate this, and the new capacity is never smaller than
\* the number of the items left.
C30_BackingStoreFloor ==
  /\ tr.hasRoot => BackingOK(tr.root)
  /\ (obs.op = "Delete" /\ obs.pre.hasRoot)
       => ShrinkOK(obs.pre.root, tr.root, 1)
  /\ (obs.op = "RangeDelete" /\ obs.pre.hasRoot)
       => ShrinkOK(obs.pre.root, tr.root, KeyBits + MaxLeafCount)

\* witness of C30: a RangeDelete left one leaf with an item and with its
\* capacity halved twice
C30_Witness ==
  /\ obs.op = "RangeDelete"
  /\ obs.pre.hasRoot
  /\ HalvedTwice(obs.pre.root, tr.root)

=============================================================================
